---------------------------- MODULE Spec2Model ----------------------------
(***************************************************************************)
(* routezero: DNS records for the members of a ZeroTier network, built by  *)
(* create_records and published by deploy_stack through CloudFormation.    *)
(*                                                                         *)
(* A Python str is modelled as a sequence of characters; a character is a  *)
(* one-character string, except the two non-ASCII characters, which are    *)
(* written "U+00E9" and "U+00FC".                                           *)
(***************************************************************************)
EXTENDS Integers, Sequences, FiniteSets, TLC

(***************************************************************************)
(* Characters                                                              *)
(***************************************************************************)
Lower == <<"a","b","c","d","e","f","g","h","i","j","k","l","m",
           "n","o","p","q","r","s","t","u","v","w","x","y","z">>

Upper == <<"A","B","C","D","E","F","G","H","I","J","K","L","M",
           "N","O","P","Q","R","S","T","U","V","W","X","Y","Z">>

Digit == <<"0","1","2","3","4","5","6","7","8","9">>

Range(s) == {s[i] : i \in DOMAIN s}

\* the characters of the alphabet that are not 7-bit ASCII
NonAscii == {"U+00E9", "U+00FC"}

\* ord(c) for the characters of the model's alphabet
Ord(c) ==
    IF \E k \in DOMAIN Lower : Lower[k] = c
        THEN 96 + (CHOOSE k \in DOMAIN Lower : Lower[k] = c)
    ELSE IF \E k \in DOMAIN Upper : Upper[k] = c
        THEN 64 + (CHOOSE k \in DOMAIN Upper : Upper[k] = c)
    ELSE IF \E k \in DOMAIN Digit : Digit[k] = c
        THEN 47 + (CHOOSE k \in DOMAIN Digit : Digit[k] = c)
    ELSE CASE c = "\n" -> 10
           [] c = " " -> 32
           [] c = "\"" -> 34
           [] c = "-" -> 45
           [] c = "." -> 46
           [] c = ":" -> 58
           [] c = "_" -> 95
           [] c = "U+00E9" -> 233
           [] c = "U+00FC" -> 252

\* str.join: the parts separated by sep
RECURSIVE Join(_, _)
Join(parts, sep) ==
    IF Len(parts) = 0 THEN <<>>
    ELSE IF Len(parts) = 1 THEN parts[1]
    ELSE parts[1] \o <<sep>> \o Join(Tail(parts), sep)

\* str.split(sep): always at least one part, empty parts are kept
RECURSIVE Split(_, _)
Split(s, sep) ==
    LET at == {i \in DOMAIN s : s[i] = sep} IN
    IF at = {} THEN <<s>>
    ELSE LET k == CHOOSE i \in at : \A j \in at : i <= j
         IN  <<SubSeq(s, 1, k - 1)>> \o Split(SubSeq(s, k + 1, Len(s)), sep)

\* str.rstrip(c)
RECURSIVE RStrip(_, _)
RStrip(s, c) ==
    IF Len(s) > 0 /\ s[Len(s)] = c THEN RStrip(SubSeq(s, 1, Len(s) - 1), c) ELSE s

\* str.lstrip(c)
RECURSIVE LStrip(_, _)
LStrip(s, c) ==
    IF Len(s) > 0 /\ s[1] = c THEN LStrip(Tail(s), c) ELSE s

\* str.strip(c)
Strip(s, c) == RStrip(LStrip(s, c), c)

\* list concatenation of a list of lists (itertools.chain.from_iterable)
RECURSIVE Chain(_)
Chain(lists) ==
    IF Len(lists) = 0 THEN <<>> ELSE lists[1] \o Chain(Tail(lists))

(***************************************************************************)
(* label.encode("punycode"), the codec punify_label falls back to          *)
(***************************************************************************)
PunycodeDigits == Lower \o Digit

\* ord(c) < 128
IsAscii(c) == c \notin NonAscii

\* segregate: the ASCII characters in order
Base(text) == SelectSeq(text, IsAscii)

\* segregate: the non-ASCII characters, sorted, without duplicates
RECURSIVE SortedChars(_)
SortedChars(set) ==
    IF set = {} THEN <<>>
    ELSE LET c == CHOOSE x \in set : \A y \in set : Ord(x) <= Ord(y)
         IN  <<c>> \o SortedChars(set \ {c})

Extended(text) == SortedChars({text[i] : i \in {j \in DOMAIN text : ~IsAscii(text[j])}})

selective_len(text, max) == Cardinality({i \in DOMAIN text : Ord(text[i]) < max})

\* positions are the 0-based ones of the codec; <<-1, -1>> when not found
RECURSIVE selective_find(_, _, _, _)
selective_find(text, char, index, pos) ==
    LET p == pos + 1 IN
    IF p = Len(text) THEN <<-1, -1>>
    ELSE IF Ord(text[p + 1]) = char THEN <<index + 1, p>>
    ELSE IF Ord(text[p + 1]) < char THEN selective_find(text, char, index + 1, p)
    ELSE selective_find(text, char, index, p)

\* the inner loop of insertion_unsort for one character: <<result, oldindex>>
RECURSIVE unsort_char(_, _, _, _, _, _, _)
unsort_char(text, char, index, pos, delta, oldindex, result) ==
    LET found == selective_find(text, char, index, pos) IN
    IF found[1] = -1 THEN <<result, oldindex>>
    ELSE unsort_char(text, char, found[1], found[2], 0, found[1],
                     Append(result, delta + found[1] - oldindex - 1))

RECURSIVE unsort_from(_, _, _, _, _)
unsort_from(text, extended, oldchar, oldindex, result) ==
    IF Len(extended) = 0 THEN result
    ELSE LET char  == Ord(extended[1])
             delta == (selective_len(text, char) + 1) * (char - oldchar)
             step  == unsort_char(text, char, -1, -1, delta, oldindex, result)
         IN  unsort_from(text, Tail(extended), char, step[2], step[1])

insertion_unsort(text, extended) == unsort_from(text, extended, 128, -1, <<>>)

T(j, bias) ==
    LET res == 36 * (j + 1) - bias IN
    IF res < 1 THEN 1 ELSE IF res > 26 THEN 26 ELSE res

RECURSIVE generalized_from(_, _, _)
generalized_from(N, bias, j) ==
    LET t == T(j, bias) IN
    IF N < t THEN <<PunycodeDigits[N + 1]>>
    ELSE <<PunycodeDigits[t + ((N - t) % (36 - t)) + 1]>>
         \o generalized_from((N - t) \div (36 - t), bias, j + 1)

generate_generalized_integer(N, bias) == generalized_from(N, bias, 0)

RECURSIVE adapt_loop(_, _)
adapt_loop(delta, divisions) ==
    IF delta > 455 THEN adapt_loop(delta \div 35, divisions + 36)
    ELSE divisions + ((36 * delta) \div (delta + 38))

adapt(delta, first, numchars) ==
    LET d == IF first THEN delta \div 700 ELSE delta \div 2
    IN  adapt_loop(d + (d \div numchars), 0)

RECURSIVE integers_from(_, _, _, _)
integers_from(baselen, deltas, points, bias) ==
    IF points >= Len(deltas) THEN <<>>
    ELSE generate_generalized_integer(deltas[points + 1], bias)
         \o integers_from(baselen, deltas, points + 1,
                          adapt(deltas[points + 1], points = 0, baselen + points + 1))

generate_integers(baselen, deltas) == integers_from(baselen, deltas, 0, 72)

punycode_encode(text) ==
    LET base     == Base(text)
        deltas   == insertion_unsort(text, Extended(text))
        extended == generate_integers(Len(base), deltas)
    IN  IF Len(base) > 0 THEN base \o <<"-">> \o extended ELSE extended

(***************************************************************************)
(* Hostname codec                                                          *)
(***************************************************************************)
NAME_NAMESPACE == <<"z","e","r","o","t","i","e","r">>

\* a slip: both namespaces under one label
NODE_NAMESPACE_same == NAME_NAMESPACE

NODE_NAMESPACE == <<"z","e","r","o","t","i","e","r","-","n","o","d","e">>

punify_label(label) ==
    IF \A i \in DOMAIN label : IsAscii(label[i]) THEN label
    ELSE <<"x","n","-","-">> \o punycode_encode(label)

\* the characters of the class [A-Z\d-] under re.IGNORECASE
Allowed == Range(Lower) \cup Range(Upper) \cup Range(Digit) \cup {"-"}

MaxLabel == 63

MaxHostname == 255

\* re.match of (?!-)[A-Z\d-]{1,63}(?<!-)$ : the class matches k characters,
\* and $ matches at the end or before a final newline
allowed_match(x) ==
    \E k \in {Len(x) - 1, Len(x)} \cap 1..MaxLabel :
        /\ \A j \in 1..k : x[j] \in Allowed
        /\ x[1] # "-"
        /\ x[k] # "-"
        /\ \/ k = Len(x)
           \/ k = Len(x) - 1 /\ x[Len(x)] = "\n"

\* is_valid_hostname indexes hostname[-1]: its argument is never empty here
is_valid_hostname(hostname) ==
    IF Len(hostname) > MaxHostname THEN FALSE
    ELSE LET h     == IF hostname[Len(hostname)] = "."
                          THEN SubSeq(hostname, 1, Len(hostname) - 1)
                          ELSE hostname
             parts == Split(h, ".")
         IN  \A i \in DOMAIN parts : allowed_match(parts[i])

dnsjoin(args) ==
    LET labels == Chain([i \in DOMAIN args |-> Split(Strip(args[i], "."), ".")])
    IN  Join([i \in DOMAIN labels |-> punify_label(labels[i])], ".")

(***************************************************************************)
(* Address synthesizer                                                     *)
(***************************************************************************)
\* a slip: the "9993" between the two identifiers left out
get_rfc4193_address_no9993(network_id, node_id) ==
    LET address == <<"f","d">> \o network_id \o node_id
        starts  == {k \in 0..(Len(address) - 1) : k % 4 = 0}
        groups  == [g \in 1..Cardinality(starts) |->
                       SubSeq(address, 4 * (g - 1) + 1,
                              IF 4 * g < Len(address) THEN 4 * g ELSE Len(address))]
    IN  Join(groups, ":")

GroupSize == 4

get_rfc4193_address(network_id, node_id) ==
    LET address == <<"f","d">> \o network_id \o <<"9","9","9","3">> \o node_id
        starts  == {i \in 0..(Len(address) - 1) : i % GroupSize = 0}
        groups  == [g \in 1..Cardinality(starts) |->
                       SubSeq(address, GroupSize * (g - 1) + 1,
                              IF GroupSize * g < Len(address)
                                  THEN GroupSize * g ELSE Len(address))]
    IN  Join(groups, ":")

(***************************************************************************)
(* Record builder                                                          *)
(***************************************************************************)
EmptyRecords == [name \in {} |-> {}]

\* records[name][type] = values on a defaultdict(dict)
Put(records, name, type, values) ==
    IF name \in DOMAIN records
        THEN [records EXCEPT ![name] = (type :> values) @@ @]
        ELSE records @@ (name :> (type :> values))

HasColon(ip) == \E i \in DOMAIN ip : ip[i] = ":"

NoColon(ip) == ~HasColon(ip)

\* a slip: only the authorization is looked at
Skipped_authorized_only(member) == ~member.authorized

\* the members the loop of create_records passes over
Skipped(member) == ~member.authorized \/ Len(member.ipAssignments) = 0

txt_records(zone_name, network) ==
    LET value == <<<<"\"">> \o network.id \o <<"\"">>>>
        first == Put(EmptyRecords, dnsjoin(<<NAME_NAMESPACE, zone_name>>), "TXT", value)
    IN  Put(first, dnsjoin(<<NODE_NAMESPACE, zone_name>>), "TXT", value)

node_name(zone_name, member) == dnsjoin(<<member.nodeId, NODE_NAMESPACE, zone_name>>)

friendly_name(zone_name, member) == dnsjoin(<<member.name, NAME_NAMESPACE, zone_name>>)

member_ipv4(member) == SelectSeq(member.ipAssignments, NoColon)

member_ipv6(network, member) ==
    LET ipv6 == SelectSeq(member.ipAssignments, HasColon)
    IN  IF network.rfc4193
            THEN Append(ipv6, get_rfc4193_address(network.id, member.nodeId))
            ELSE ipv6

\* a slip: the alias is set whether or not the friendly name is valid
add_member_always_alias(records, zone_name, network, member) ==
    IF Skipped(member) THEN records
    ELSE LET node == node_name(zone_name, member)
             name == friendly_name(zone_name, member)
             r1   == Put(records, node, "A", member_ipv4(member))
             r2   == Put(r1, node, "AAAA", member_ipv6(network, member))
         IN  Put(r2, name, "CNAME", <<node>>)

\* one pass of the member loop
add_member(records, zone_name, network, member) ==
    IF Skipped(member) THEN records
    ELSE LET node == node_name(zone_name, member)
             name == friendly_name(zone_name, member)
             r1   == Put(records, node, "A", member_ipv4(member))
             r2   == Put(r1, node, "AAAA", member_ipv6(network, member))
         IN  IF is_valid_hostname(name) THEN Put(r2, name, "CNAME", <<node>>) ELSE r2

RECURSIVE add_members(_, _, _, _)
add_members(records, zone_name, network, i) ==
    IF i > Len(network.members) THEN records
    ELSE add_members(add_member(records, zone_name, network, network.members[i]),
                     zone_name, network, i + 1)

create_records(zone_name, network) ==
    add_members(txt_records(zone_name, network), zone_name, network, 1)

(***************************************************************************)
(* Membership snapshots the provider can return                            *)
(***************************************************************************)
\* "deadbeef01", "0123456789"
NodeIds == {<<"d","e","a","d","b","e","e","f","0","1">>, <<"0","1","2","3","4","5","6","7","8","9">>}

\* "8056c2e21c000001" (what the provider issues), "abcd012345"
NetworkId16 == <<"8","0","5","6","c","2","e","2","1","c","0","0","0","0","0","1">>

NetworkId10 == <<"a","b","c","d","0","1","2","3","4","5">>

\* "zt.io", "zt.io.", ""
ZoneNames == {<<"z","t",".","i","o">>, <<"z","t",".","i","o",".">>, <<>>}

\* a label of 64 characters
LongLabel == [i \in 1..(MaxLabel + 1) |-> "a"]

\* "", "laptop", "-pc", "my pc", "a.b.", "deadbeef01", U+00FC, "pc\n", 64 * "a",
\* "deadbeef01.zerotier-node"
MemberNames == {<<>>, <<"l","a","p","t","o","p">>, <<"-","p","c">>, <<"m","y"," ","p","c">>, <<"a",".","b",".">>, <<"d","e","a","d","b","e","e","f","0","1">>,
                <<"U+00FC">>, <<"p","c","\n">>, LongLabel,
                <<"d","e","a","d","b","e","e","f","0","1",".","z","e","r","o","t","i","e","r","-","n","o","d","e">>}

\* "10.0.0.5", "10.0.0.6", "fc00::5"
IPv4a == <<"1","0",".","0",".","0",".","5">>

IPv4b == <<"1","0",".","0",".","0",".","6">>

IPv6a == <<"f","c","0","0",":",":","5">>

IpAssignments == {<<>>, <<IPv4a>>, <<IPv6a>>, <<IPv4a, IPv6a, IPv4b>>}

Members ==
    [nodeId : NodeIds, name : MemberNames, authorized : BOOLEAN,
     ipAssignments : IpAssignments]

\* member lists with pairwise distinct node ids, in either order
MemberLists ==
    {<<>>} \cup {<<a>> : a \in Members}
           \cup {p \in Members \X Members : p[1].nodeId # p[2].nodeId}

Networks ==
    [id : {NetworkId16}, name : ZoneNames, rfc4193 : BOOLEAN, members : MemberLists]

NoNetwork == [id |-> <<>>, name |-> <<>>, rfc4193 |-> FALSE, members |-> <<>>]

\* the network without its i-th member
WithoutMember(network, i) ==
    [network EXCEPT !.members =
        SubSeq(network.members, 1, i - 1)
        \o SubSeq(network.members, i + 1, Len(network.members))]

(***************************************************************************)
(* Template rendering                                                      *)
(***************************************************************************)
\* one RecordSet per name and type; the WaitConditionHandle is named after
\* uuid, a value of uuid.uuid4()
create_template(zone_name, recs, uuid) ==
    [Description    |-> "Dynamic DNS entries for ZeroTier",
     HostedZoneName |-> RStrip(zone_name, ".") \o <<".">>,
     RecordSets     |-> UNION {{[Name |-> name, Type |-> type,
                                 ResourceRecords |-> recs[name][type], TTL |-> 300]
                                : type \in DOMAIN recs[name]} : name \in DOMAIN recs},
     DummyChange    |-> uuid]

NoTemplate == [Description |-> "", HostedZoneName |-> <<>>, RecordSets |-> {},
               DummyChange |-> -1]

(***************************************************************************)
(* State                                                                   *)
(***************************************************************************)
VARIABLES
    pc,         \* where the handler is
    runs,       \* invocations of the handler so far
    network,    \* what get_network returned
    records,    \* what create_records returned
    template,   \* what create_template returned
    uuids,      \* uuid4 values drawn so far
    i,          \* index into methods of the loop of deploy_stack
    polls,      \* num_attempts of the waiter that is waiting
    polled,     \* the waiters that asked for the stack's status in this call
    log,        \* the submissions of this call and the ends of its waits
    error,      \* the exception the call ended with
    stack,      \* the backend's stack of that name
    faults,     \* whether the backend has rejected, failed or stalled
    ids,        \* a network id and a node id
    address     \* what get_rfc4193_address returned for ids

vars == <<pc, runs, network, records, template, uuids, i, polls, polled, log,
          error, stack, faults, ids, address>>

handlerVars == <<pc, runs, network, records, template, uuids>>

callVars == <<i, polls, polled, log, error>>

addrVars == <<ids, address>>

(***************************************************************************)
(* Deployment driver                                                       *)
(***************************************************************************)
\* StackName/TemplateBody callables paired with their waiters
methods == <<[method |-> "create_stack", waiter |-> "stack_create_complete"],
             [method |-> "update_stack", waiter |-> "stack_update_complete"]>>

MaxAttempts == 60

MaxRuns == 2

Absent == [status |-> "ABSENT", body |-> NoTemplate, pending |-> NoTemplate]

Event(op, result) == [op |-> op, result |-> result]

\* the loop goes to its next method, or deploy_stack and the handler return
Continue ==
    IF i < Len(methods) THEN i' = i + 1 /\ pc' = "method"
                        ELSE i' = i /\ pc' = "done"

\* the snapshots the deployments are run on
DeployNetworks ==
    {[id |-> NetworkId16, name |-> <<"z","t",".","i","o">>, rfc4193 |-> TRUE,
      members |-> <<[nodeId |-> <<"d","e","a","d","b","e","e","f","0","1">>, name |-> <<"l","a","p","t","o","p">>, authorized |-> TRUE,
                     ipAssignments |-> <<IPv4a>>]>>],
     [id |-> NetworkId16, name |-> <<"z","t",".","i","o">>, rfc4193 |-> FALSE, members |-> <<>>]}

\* the stack an earlier invocation left behind
Deployed(net) ==
    [status  |-> "COMPLETE",
     body    |-> create_template(net.name, create_records(net.name, net), 0),
     pending |-> NoTemplate]

\* handler: network = Zerotier(api_key).get_network(network_id)
GetNetwork ==
    /\ pc \in {"idle", "done", "raised"}
    /\ runs < MaxRuns
    /\ runs' = runs + 1
    /\ network' \in DeployNetworks
    /\ pc' = "create_records"
    /\ i' = 1
    /\ polls' = 0
    /\ polled' = {}
    /\ log' = <<>>
    /\ error' = "none"
    /\ UNCHANGED <<records, template, uuids, stack, faults, addrVars>>

\* handler: records = create_records(network["config"]["name"], network)
CreateRecords ==
    /\ pc = "create_records"
    /\ records' = create_records(network.name, network)
    /\ pc' = "create_template"
    /\ UNCHANGED <<runs, network, template, uuids, callVars, stack, faults, addrVars>>

\* handler: template = create_template(...), then deploy_stack is entered
CreateTemplate ==
    /\ pc = "create_template"
    /\ uuids' = uuids + 1
    /\ template' = create_template(network.name, records, uuids + 1)
    /\ pc' = "method"
    /\ UNCHANGED <<runs, network, records, callVars, stack, faults, addrVars>>

\* method(...) returns: the backend took the template
SubmitAccepted ==
    /\ pc = "method"
    /\ \/ i = 1 /\ stack.status = "ABSENT"
       \/ i = 2 /\ stack.status = "COMPLETE" /\ stack.body # template
    /\ stack' = [stack EXCEPT !.status = "IN_PROGRESS", !.pending = template]
    /\ log' = Append(log, Event(methods[i].method, "accepted"))
    /\ polls' = 0
    /\ pc' = "wait"
    /\ UNCHANGED <<runs, network, records, template, uuids, i, polled, error,
                   faults, addrVars>>

\* a slip: AlreadyExistsException is not caught
SubmitAlreadyExists_raised ==
    /\ pc = "method"
    /\ i = 1
    /\ stack.status # "ABSENT"
    /\ log' = Append(log, Event(methods[i].method, "AlreadyExistsException"))
    /\ error' = "AlreadyExistsException"
    /\ pc' = "raised"
    /\ UNCHANGED <<runs, network, records, template, uuids, i, polls, polled,
                   stack, faults, addrVars>>

\* create_stack raises AlreadyExistsException: except ...: continue
\* (update_stack has no such answer)
SubmitAlreadyExists ==
    /\ pc = "method"
    /\ i = 1
    /\ stack.status # "ABSENT"
    /\ log' = Append(log, Event(methods[i].method, "AlreadyExistsException"))
    /\ Continue
    /\ UNCHANGED <<runs, network, records, template, uuids, polls, polled, error,
                   stack, faults, addrVars>>

\* update_stack raises ValidationError "No updates are to be performed"
SubmitNoUpdates ==
    /\ pc = "method"
    /\ i = 2
    /\ stack.status = "COMPLETE"
    /\ stack.body = template
    /\ log' = Append(log, Event(methods[i].method, "NoUpdates"))
    /\ error' = "NoUpdates"
    /\ pc' = "raised"
    /\ UNCHANGED <<runs, network, records, template, uuids, i, polls, polled,
                   stack, faults, addrVars>>

\* a slip: every exception of the submission is caught, not only already-exists
SubmitRejected_caught ==
    /\ pc = "method"
    /\ log' = Append(log, Event(methods[i].method, "ClientError"))
    /\ faults' = TRUE
    /\ Continue
    /\ UNCHANGED <<runs, network, records, template, uuids, polls, polled, error,
                   stack, addrVars>>

\* method(...) raises any other error: access denied, a stack that is not in
\* a state to be updated, a template the backend does not take
SubmitRejected ==
    /\ pc = "method"
    /\ log' = Append(log, Event(methods[i].method, "ClientError"))
    /\ error' = "ClientError"
    /\ faults' = TRUE
    /\ pc' = "raised"
    /\ UNCHANGED <<runs, network, records, template, uuids, i, polls, polled,
                   stack, addrVars>>

\* waiter.wait: the stack is still in progress, sleep Delay and ask again
PollInProgress ==
    /\ pc = "wait"
    /\ polls + 1 < MaxAttempts
    /\ polls' = polls + 1
    /\ polled' = polled \cup {methods[i].waiter}
    /\ UNCHANGED <<handlerVars, i, log, error, stack, faults, addrVars>>

\* a slip: the wait gives up without raising
PollTimeout_returns ==
    /\ pc = "wait"
    /\ polls + 1 >= MaxAttempts
    /\ polls' = polls + 1
    /\ polled' = polled \cup {methods[i].waiter}
    /\ log' = Append(log, Event(methods[i].waiter, "timeout"))
    /\ faults' = TRUE
    /\ Continue
    /\ UNCHANGED <<runs, network, records, template, uuids, error, stack, addrVars>>

\* waiter.wait: still in progress at the last attempt, WaiterError
PollTimeout ==
    /\ pc = "wait"
    /\ polls + 1 >= MaxAttempts
    /\ polls' = polls + 1
    /\ polled' = polled \cup {methods[i].waiter}
    /\ log' = Append(log, Event(methods[i].waiter, "timeout"))
    /\ error' = "WaiterError"
    /\ faults' = TRUE
    /\ pc' = "raised"
    /\ UNCHANGED <<runs, network, records, template, uuids, i, stack, addrVars>>

\* waiter.wait: the stack reached a failed status, WaiterError
PollFailed ==
    /\ pc = "wait"
    /\ polls' = polls + 1
    /\ polled' = polled \cup {methods[i].waiter}
    /\ log' = Append(log, Event(methods[i].waiter, "failed"))
    /\ stack' = [stack EXCEPT !.status = "FAILED", !.pending = NoTemplate]
    /\ error' = "WaiterError"
    /\ faults' = TRUE
    /\ pc' = "raised"
    /\ UNCHANGED <<runs, network, records, template, uuids, i, addrVars>>

\* waiter.wait returns: the stack reached the complete status
PollComplete ==
    /\ pc = "wait"
    /\ polls' = 0
    /\ polled' = polled \cup {methods[i].waiter}
    /\ log' = Append(log, Event(methods[i].waiter, "complete"))
    /\ stack' = [status |-> "COMPLETE", body |-> stack.pending, pending |-> NoTemplate]
    /\ Continue
    /\ UNCHANGED <<runs, network, records, template, uuids, error, faults, addrVars>>

DeployStep ==
    \/ SubmitAccepted
    \/ SubmitAlreadyExists
    \/ SubmitNoUpdates
    \/ SubmitRejected
    \/ PollInProgress
    \/ PollTimeout
    \/ PollFailed
    \/ PollComplete

Init ==
    /\ pc = "idle"
    /\ runs = 0
    /\ network = NoNetwork
    /\ records = EmptyRecords
    /\ template = NoTemplate
    /\ uuids = 0
    /\ i = 1
    /\ polls = 0
    /\ polled = {}
    /\ log = <<>>
    /\ error = "none"
    /\ stack \in {Absent} \cup {Deployed(net) : net \in DeployNetworks}
    /\ faults = FALSE
    /\ ids = <<<<>>, <<>>>>
    /\ address = <<>>

Next ==
    \/ GetNetwork
    \/ CreateRecords
    \/ CreateTemplate
    \/ DeployStep

Spec == Init /\ [][Next]_vars

\* deploy_stack runs on one thread and a waiter sleeps a finite Delay: a call
\* that can take a step takes it
FairSpec == Spec /\ WF_vars(DeployStep)

(***************************************************************************)
(* create_records on every snapshot                                        *)
(***************************************************************************)
BuildInit ==
    /\ pc = "create_records"
    /\ runs = 1
    /\ network \in Networks
    /\ records = EmptyRecords
    /\ template = NoTemplate
    /\ uuids = 0
    /\ i = 1
    /\ polls = 0
    /\ polled = {}
    /\ log = <<>>
    /\ error = "none"
    /\ stack = Absent
    /\ faults = FALSE
    /\ ids = <<<<>>, <<>>>>
    /\ address = <<>>

BuildNext == CreateRecords

BuildSpec == BuildInit /\ [][BuildNext]_vars

(***************************************************************************)
(* get_rfc4193_address on identifiers of both widths                       *)
(***************************************************************************)
HexChars == Range(Digit) \cup {"a", "b", "c", "d", "e", "f"}

HexSample == {"0", "9", "a", "f"}

\* identifiers of n hex digits
HexIds(n) == {[k \in 1..n |-> IF k % 2 = 1 THEN a ELSE b] : a, b \in HexSample}

NetworkIds == HexIds(16) \cup HexIds(10) \cup {NetworkId16, NetworkId10}

AddrInit ==
    /\ pc = "get_rfc4193_address"
    /\ runs = 0
    /\ network = NoNetwork
    /\ records = EmptyRecords
    /\ template = NoTemplate
    /\ uuids = 0
    /\ i = 1
    /\ polls = 0
    /\ polled = {}
    /\ log = <<>>
    /\ error = "none"
    /\ stack = Absent
    /\ faults = FALSE
    /\ ids \in NetworkIds \X (HexIds(10) \cup NodeIds)
    /\ address = <<>>

Rfc4193Address ==
    /\ pc = "get_rfc4193_address"
    /\ address' = get_rfc4193_address(ids[1], ids[2])
    /\ pc' = "returned"
    /\ UNCHANGED <<runs, network, records, template, uuids, callVars, stack,
                   faults, ids>>

AddrNext == Rfc4193Address

AddrSpec == AddrInit /\ [][AddrNext]_vars

(***************************************************************************)
(* Properties of deploy_stack                                              *)
(***************************************************************************)
Submissions(method) == {k \in DOMAIN log : log[k].op = method}

Terminated == pc \in {"done", "raised"}

InCall == pc \in {"method", "wait"}

\* C1: update_stack is submitted only in a call whose create_stack was
\* answered with already-exists; a call whose create_stack was accepted and
\* whose create waiter saw completion never submits update_stack.
C1_UpdateOnlyAfterAlreadyExists ==
    \A k \in Submissions("update_stack") :
        \E j \in 1..(k - 1) : log[j] = Event("create_stack", "AlreadyExistsException")

\* C2: as long as the backend completes every operation it accepts and
\* rejects nothing but an unchanged template, no run of the handler fails,
\* and no run ever fails with the backend's "no updates" rejection.
C2_IdempotentDeploy ==
    /\ error # "NoUpdates"
    /\ ~faults => pc # "raised"

\* C3: the first submission of every call is create_stack; when it is
\* answered with already-exists the create waiter is never asked, the next
\* submission is update_stack, the call does not end before submitting it, and
\* already-exists is never the error the call ends with.
C3_CreateUpdateFallback ==
    /\ (pc \in {"wait", "done", "raised"} \/ (pc = "method" /\ i > 1)) => Len(log) >= 1
    /\ Len(log) >= 1 => log[1].op = "create_stack"
    /\ error # "AlreadyExistsException"
    /\ (Len(log) >= 1 /\ log[1].result = "AlreadyExistsException") =>
          /\ "stack_create_complete" \notin polled
          /\ Len(log) >= 2 => log[2].op = "update_stack"
          /\ Terminated => Len(log) >= 2

C3_Witness ==
    /\ pc = "done"
    /\ Len(log) = 3
    /\ log[1] = Event("create_stack", "AlreadyExistsException")
    /\ log[2] = Event("update_stack", "accepted")
    /\ log[3] = Event("stack_update_complete", "complete")

\* what the call's last wait ended with
LastEvent == IF Len(log) = 0 THEN Event("none", "none") ELSE log[Len(log)]

C4_Safety ==
    /\ polls <= MaxAttempts
    /\ pc = "done" => LastEvent = Event(methods[i].waiter, "complete")
    /\ polls = MaxAttempts => pc = "raised" /\ error = "WaiterError"
    /\ LastEvent.result \in {"timeout", "failed"} => pc = "raised" /\ error = "WaiterError"
    /\ LastEvent.result = "timeout" => polls = MaxAttempts

\* C4: a waiter asks for the status at most 60 times; the call returns only
\* after its last waiter saw the complete status; a wait whose 60 attempts
\* pass without complete, or that sees a failed status, ends the call with
\* WaiterError; and every call of deploy_stack ends.
C4_DeployTimeout == []C4_Safety /\ (InCall ~> Terminated)

C4_Witness ==
    /\ pc = "raised"
    /\ error = "WaiterError"
    /\ polls = MaxAttempts
    /\ LastEvent = Event("stack_update_complete", "timeout")

\* C9: a call submits create_stack at most once and update_stack at most
\* once; a submission error other than already-exists is the last thing the
\* call does: it ends the call with that error, and the waiter of the rejected
\* method is never asked.
C9_NoSubmissionRetry ==
    /\ \A k \in DOMAIN methods : Cardinality(Submissions(methods[k].method)) <= 1
    /\ \A k \in DOMAIN log :
          log[k].result \in {"ClientError", "NoUpdates"} =>
              /\ k = Len(log)
              /\ pc = "raised"
              /\ error = log[k].result
              /\ \A n \in DOMAIN methods :
                    methods[n].method = log[k].op => methods[n].waiter \notin polled

C9_Witness ==
    /\ pc = "raised"
    /\ error = "ClientError"
    /\ log = <<Event("create_stack", "AlreadyExistsException"),
               Event("update_stack", "ClientError")>>

(***************************************************************************)
(* Properties of create_records                                            *)
(***************************************************************************)
Built == pc = "create_template"

Eligible(member) == member.authorized /\ Len(member.ipAssignments) > 0

HasType(recs, name, type) == name \in DOMAIN recs /\ type \in DOMAIN recs[name]

\* C5: no name of the RecordSet carries a type whose value list is empty.
C5_NoEmptyValueLists ==
    Built => \A name \in DOMAIN records :
                 \A type \in DOMAIN records[name] : Len(records[name][type]) > 0

\* C7: a member that is not authorized or has no ipAssignments contributes
\* nothing: the RecordSet is the one of the snapshot without that member.
C7_Filtering ==
    Built => \A k \in DOMAIN network.members :
                 ~Eligible(network.members[k]) =>
                     records = create_records(network.name, WithoutMember(network, k))

C7_Witness ==
    /\ Built
    /\ Len(network.members) = 2
    /\ ~network.members[1].authorized
    /\ Len(network.members[1].ipAssignments) > 0
    /\ network.members[1].name = <<"l","a","p","t","o","p">>
    /\ Eligible(network.members[2])
    /\ Len(network.members[2].name) = 0
    /\ network.rfc4193

\* C8: an eligible member whose friendly name is not a valid hostname gets
\* no CNAME, keeps its A and AAAA entries at its node name, and leaves every
\* other name of the RecordSet as it is without that member.
C8_InvalidFriendlyName ==
    Built => \A k \in DOMAIN network.members :
        LET member == network.members[k]
            node   == dnsjoin(<<member.nodeId, NODE_NAMESPACE, network.name>>)
            name   == dnsjoin(<<member.name, NAME_NAMESPACE, network.name>>)
            others == create_records(network.name, WithoutMember(network, k))
        IN  (Eligible(member) /\ ~is_valid_hostname(name)) =>
                /\ ~HasType(records, name, "CNAME")
                /\ node \in DOMAIN records
                /\ DOMAIN records[node] = {"A", "AAAA"}
                /\ records[node]["A"] = SelectSeq(member.ipAssignments, NoColon)
                /\ records[node]["AAAA"] =
                       SelectSeq(member.ipAssignments, HasColon)
                       \o (IF network.rfc4193
                               THEN <<get_rfc4193_address(network.id, member.nodeId)>>
                               ELSE <<>>)
                /\ DOMAIN records = DOMAIN others \cup {node}
                /\ \A n \in DOMAIN others : n # node => records[n] = others[n]

C8_Witness ==
    /\ Built
    /\ Len(network.members) = 2
    /\ Eligible(network.members[1])
    /\ Len(network.members[1].name) = 0
    /\ Eligible(network.members[2])
    /\ network.members[2].name = <<"l","a","p","t","o","p">>
    /\ \E n \in DOMAIN records : HasType(records, n, "CNAME")

\* C10: a name that carries a CNAME carries nothing else: no friendly name
\* is a node name or one of the two TXT names.
C10_CnameExclusive ==
    Built => \A name \in DOMAIN records :
                 "CNAME" \in DOMAIN records[name] => DOMAIN records[name] = {"CNAME"}

C10_Witness ==
    /\ Built
    /\ \E k \in DOMAIN network.members :
          /\ Eligible(network.members[k])
          /\ network.members[k].name = network.members[k].nodeId
          /\ HasType(records, dnsjoin(<<network.members[k].name, NAME_NAMESPACE,
                                       network.name>>), "CNAME")

(***************************************************************************)
(* Properties of get_rfc4193_address                                       *)
(***************************************************************************)
\* 8 groups of 4 hex characters, separated by ":"
EightGroups(a) ==
    LET groups == Split(a, ":")
    IN  /\ Len(groups) = 8
        /\ \A g \in DOMAIN groups :
              Len(groups[g]) = 4 /\ \A k \in 1..4 : groups[g][k] \in HexChars

\* C6 as stated: a 10-digit network id and a 10-digit node id give 8 groups
\* of 4 hex characters.
C6_UlaFormatTenDigits ==
    (pc = "returned" /\ Len(ids[1]) = 10 /\ Len(ids[2]) = 10) => EightGroups(address)

\* C6, amended: a 16-digit network id and a 10-digit node id give 8 groups
\* of 4 hex characters.
C6_UlaFormat ==
    (pc = "returned" /\ Len(ids[1]) = 16 /\ Len(ids[2]) = 10) => EightGroups(address)

C6_Witness ==
    /\ pc = "returned"
    /\ ids = <<NetworkId16, <<"d","e","a","d","b","e","e","f","0","1">>>>
    /\ address = <<"f","d","8","0",":","5","6","c","2",":","e","2","1","c",":","0","0","0","0",":","0","1","9","9",":","9","3","d","e",":","a","d","b","e",":","e","f","0","1">>

=============================================================================
